---- MODULE Spec2Model ----
(***************************************************************************)
(* Model of the greedy thread-path solver of the String Art generator:     *)
(* pin placement (geometry.ts, pinCalculation.ts), the line cache and the  *)
(* greedy loop with its progress ticks (lineOptimization.ts).              *)
(*                                                                         *)
(* Conventions.  JavaScript arrays are 0-based: arrays that are indexed by *)
(* pin or by pixel (pinCoords, errorMatrix, the cache arrays) are          *)
(* functions on 0..n-1; arrays that are only pushed to and walked          *)
(* (lineSequence, lastPins, coordinate lists) are sequences, so that       *)
(* lineSequence[0] of the code is lineSequence[r][1] here.                 *)
(* Real numbers are fixed point: lengths are in 1/Milli of a pixel,        *)
(* rounded down.  The raster is scaled down (imgSize = 4*ImgQuarter + 1).  *)
(***************************************************************************)
EXTENDS Integers, Sequences, FiniteSets, TLC

(* ------------------------------ bounds --------------------------------- *)
\* the raster side is 4*ImgQuarter + 1 (for these sides no pin coordinate
\* c + r*cos(..) falls on an integer, where IEEE rounding would decide)
ImgQuarter == 1
\* numberOfLines ranges over 1..MaxLines in the small configurations
MaxLines == 4
\* minDistance ranges over 1..MaxMinDistance (and below numberOfPins / 2)
MaxMinDistance == 2

(* ------------------------- program constants --------------------------- *)
\* lastPins keeps the last 20 chosen pins
RecentWindow == 20
\* a progress record is published every 10 lines
ProgressEvery == 10
\* fixed point unit of the real-valued lengths
Milli == 1000

(* ------------------------------- state --------------------------------- *)
VARIABLES
  params,              \* StringArtParameters of the run(s)
  pinCoords,           \* pin table, [0..numberOfPins-1 -> <<x, y>>]
  lineCache,           \* LineCache: x, y, length, weight, indexed a*numPins+b
  processedImageData,  \* the 8-bit canonicalised image
  hasCallback,         \* whether onProgress was passed
  errorMatrix,         \* per run: residual field F
  lineSequence,        \* per run: Q
  currentPin,          \* per run
  totalThreadLength,   \* per run, in 1/Milli
  lastPins,            \* per run: the recent window
  lineIndex,           \* per run: loop counter
  pc,                  \* per run: "loop", "yield", "done", "rejected"
  ticks,               \* per run: the progress records delivered so far
  warned,              \* per run: console.warn('No valid next pin found')
  cancelRequested,     \* per run: the host asked to cancel (CANCEL message)
  call,                \* a direct call of an exported function: name, arguments
  ret,                 \* what that call returned
  selectedImage,       \* App: the uploaded file, 0 for null
  isProcessing,        \* App: the flag that disables the Generate button
  result,              \* App: the run whose result is shown, 0 for null
  progress,            \* App: the run whose last record is shown, 0 for null
  error,               \* App: whether an error message is shown
  selectedPreset,      \* App: the preset card last applied
  generation           \* App: what became of each generateArt call

inputs == <<params, pinCoords, lineCache, processedImageData, hasCallback>>
locals == <<errorMatrix, lineSequence, currentPin, totalThreadLength, lastPins,
            lineIndex, pc, ticks, warned>>
exported == <<call, ret>>
app == <<selectedImage, isProcessing, result, progress, error, selectedPreset,
         generation>>
vars == <<inputs, locals, cancelRequested, exported, app>>

\* two solver runs on the same inputs; the second one only moves in TwinSpec
Runs == {1, 2}

(* ------------------------------ geometry ------------------------------- *)
RECURSIVE ISqrtIter(_, _)
ISqrtIter(n, x) ==
  LET y == (x + (n \div x)) \div 2
  IN  IF y >= x THEN x ELSE ISqrtIter(n, y)

\* floor(sqrt(n))
ISqrt(n) == IF n = 0 THEN 0 ELSE ISqrtIter(n, n)

\* Math.sqrt(dx*dx + dy*dy), in 1/Milli
calculatePinDistance(pin1, pin2) ==
  LET dx == pin2[1] - pin1[1]
      dy == pin2[2] - pin1[2]
  IN  ISqrt((dx * dx + dy * dy) * Milli * Milli)

\* 10^6 * cos(k * 15 degrees), 0 <= k <= 6
CosQuadrant == <<1000000, 965926, 866025, 707107, 500000, 258819, 0>>

\* 10^6 * cos(k * 15 degrees), any k
CosMicro(k) ==
  LET m == k % 24
  IN  IF m <= 6 THEN CosQuadrant[m + 1]
      ELSE IF m <= 12 THEN 0 - CosQuadrant[12 - m + 1]
      ELSE IF m <= 18 THEN 0 - CosQuadrant[m - 12 + 1]
      ELSE CosQuadrant[24 - m + 1]

SinMicro(k) == CosMicro(k + 18)

\* the multiples of 15 degrees at which the double Math.cos returns lies
\* below the exact value 0 or -1/2: cos(4*pi/3) and cos(3*pi/2)
CosRoundsBelow == {16, 18}

\* the same for Math.sin: sin(11*pi/6) lies below -1/2
SinRoundsBelow == {22}

FloorCoordRounding(center2, radius2, micro, below) ==
  (center2 * 1000000 + radius2 * micro + 1000000) \div 2000000

\* Math.floor(center + radius * c), c given in 10^-6 and center, radius
\* doubled; where the exact sum is an integer and the double c lies below
\* its exact value, the double sum lies below that integer
FloorCoord(center2, radius2, micro, below) ==
  LET num == center2 * 1000000 + radius2 * micro
  IN  IF below /\ num % 2000000 = 0
      THEN (num \div 2000000) - 1
      ELSE num \div 2000000

\* pin i at floor(center + radius * cos/sin(2*pi*i/numberOfPins)); center and
\* radius are passed doubled (2*center = imgSize, 2*radius = imgSize - 1);
\* numberOfPins divides 24, so every angle is a multiple of 15 degrees
calculatePinPositions(numberOfPins, center2, radius2) ==
  [i \in 0..(numberOfPins - 1) |->
     LET k == i * (24 \div numberOfPins)
     IN  << FloorCoord(center2, radius2, CosMicro(k), k \in CosRoundsBelow),
            FloorCoord(center2, radius2, SinMicro(k), k \in SinRoundsBelow) >>]

\* center = imgSize / 2, radius = imgSize / 2 - 0.5
calculatePins(numberOfPins, imgSize) ==
  calculatePinPositions(numberOfPins, imgSize, imgSize - 1)

getPinAtOffsetNoWrap(pin, offset, numberOfPins) == pin + offset

getPinAtOffset(pin, offset, numberOfPins) == (pin + offset) % numberOfPins

Abs(x) == IF x < 0 THEN 0 - x ELSE x

Min(a, b) == IF a < b THEN a ELSE b

calculateMinPinDistance(pin1, pin2, numberOfPins) ==
  LET direct == Abs(pin2 - pin1)
      wraparound == numberOfPins - direct
  IN  Min(direct, wraparound)

InSeq(x, s) == \E i \in 1..Len(s) : s[i] = x

RECURSIVE ValidPinsFrom(_, _, _, _, _)
ValidPinsFrom(offset, pin, minDistance, numberOfPins, excludePins) ==
  IF offset < numberOfPins - minDistance
  THEN LET targetPin == getPinAtOffset(pin, offset, numberOfPins)
           rest == ValidPinsFrom(offset + 1, pin, minDistance, numberOfPins,
                                 excludePins)
       IN  IF ~InSeq(targetPin, excludePins) THEN <<targetPin>> \o rest
           ELSE rest
  ELSE <<>>

\* mutant: the walk forgets the exclusion on the far side of the ring
\* (offset < numberOfPins for offset < numberOfPins - minDistance)
getValidTargetPinsNoWrap(pin, minDistance, numberOfPins, excludePins) ==
  ValidPinsFrom(minDistance, pin, 0, numberOfPins, excludePins)

\* mutant: the exclusion list is ignored
getValidTargetPinsNoExclude(pin, minDistance, numberOfPins, excludePins) ==
  ValidPinsFrom(minDistance, pin, minDistance, numberOfPins, <<>>)

getValidTargetPins(pin, minDistance, numberOfPins, excludePins) ==
  ValidPinsFrom(minDistance, pin, minDistance, numberOfPins, excludePins)

(* --------------------------- interpolation ----------------------------- *)
\* the double arithmetic of start + step * i, step = (stop - start) / (n - 1):
\* the tuples <<start, stop, n, i>>, for end points 0..21 and n <= 30, at
\* which the exact sum is an integer and the double sum lies below it
\* (the quotient is rounded, so step * i falls short)
StepFallsShort ==
  {
    <<0, 13, 24, 23>>, <<0, 15, 12, 11>>, <<0, 15, 14, 13>>, <<0, 15, 23, 22>>,
    <<0, 15, 27, 26>>, <<1, 14, 24, 23>>, <<1, 16, 12, 11>>, <<1, 16, 14, 13>>,
    <<1, 16, 23, 22>>, <<1, 16, 27, 26>>, <<2, 15, 24, 23>>, <<3, 16, 24, 23>>,
    <<7, 0, 26, 25>>, <<8, 1, 26, 25>>, <<9, 2, 26, 25>>, <<10, 3, 26, 25>>,
    <<11, 4, 26, 25>>, <<12, 5, 26, 25>>, <<13, 6, 26, 25>>, <<14, 0, 26, 25>>,
    <<14, 7, 26, 25>>, <<15, 0, 30, 29>>, <<15, 1, 26, 25>>, <<15, 8, 26, 25>>,
    <<16, 1, 30, 29>>, <<16, 2, 26, 25>>, <<17, 2, 30, 29>>, <<17, 3, 26, 25>>,
    <<18, 3, 30, 29>>, <<18, 4, 26, 25>>, <<19, 4, 30, 29>>, <<19, 5, 26, 25>>,
    <<20, 5, 30, 29>>, <<20, 6, 26, 25>>, <<21, 0, 20, 19>>, <<21, 6, 30, 29>>,
    <<21, 7, 26, 25>>
  }

\* linspace(start, stop, num) with integer end points:
\* floor(start + ((stop - start) / (n - 1)) * i)
linspace(start, stop, num) ==
  IF num < 2
  THEN IF num = 1 THEN <<start>> ELSE <<>>
  ELSE [i \in 1..num |->
          ((start * (num - 1) + (stop - start) * (i - 1)) \div (num - 1))
            - (IF <<start, stop, num, i - 1>> \in StepFallsShort THEN 1 ELSE 0)]

(* ----------------------------- line cache ------------------------------ *)
\* an array slot holding null, or an array
Null == [isNull |-> TRUE, v |-> <<>>]

Some(s) == [isNull |-> FALSE, v |-> s]

\* mutant: the inner loop starts one pin further, b = a + minDistance + 1
CachePairFromNext(idx, numPins, minDistance) ==
  LET i == idx \div numPins
      j == idx % numPins
      a == Min(i, j)
      b == IF i < j THEN j ELSE i
  IN  [a |-> a, b |-> b, written |-> (a + minDistance < b)]

\* the pair (a, b), a < b, written by the double loop for the slot idx
CachePair(idx, numPins, minDistance) ==
  LET i == idx \div numPins
      j == idx % numPins
      a == Min(i, j)
      b == IF i < j THEN j ELSE i
  IN  [a |-> a, b |-> b, written |-> (a + minDistance <= b)]

precalculateLineCache(pins, numPins, minDistance) ==
  LET Dist(p) == calculatePinDistance(pins[p.a], pins[p.b]) \div Milli
      Slots == 0..(numPins * numPins - 1)
  IN  [ x |-> [idx \in Slots |->
                 LET p == CachePair(idx, numPins, minDistance)
                 IN  IF p.written
                     THEN Some(linspace(pins[p.a][1], pins[p.b][1], Dist(p)))
                     ELSE Null],
        y |-> [idx \in Slots |->
                 LET p == CachePair(idx, numPins, minDistance)
                 IN  IF p.written
                     THEN Some(linspace(pins[p.a][2], pins[p.b][2], Dist(p)))
                     ELSE Null],
        length |-> [idx \in Slots |->
                 LET p == CachePair(idx, numPins, minDistance)
                 IN  IF p.written THEN Dist(p) ELSE 0],
        weight |-> [idx \in Slots |-> 1] ]

(* ------------------------------- solver -------------------------------- *)
RECURSIVE LineErrorFrom(_, _, _, _, _)
LineErrorFrom(i, errMatrix, xs, ys, imgWidth) ==
  IF i > Len(xs) THEN 0
  ELSE LET pixelIndex == ys[i] * imgWidth + xs[i]
           here == IF pixelIndex >= 0 /\ pixelIndex < Cardinality(DOMAIN errMatrix)
                   THEN errMatrix[pixelIndex] ELSE 0
       IN  here + LineErrorFrom(i + 1, errMatrix, xs, ys, imgWidth)

\* sum of the residual field over the pixels of the line
calculateLineError(errMatrix, xs, ys, imgWidth) ==
  LineErrorFrom(1, errMatrix, xs, ys, imgWidth)

\* mutant: the upper clamp is missing
ClampByteNoUpper(newValue) == IF newValue < 0 THEN 0 ELSE newValue

ClampByteNoLower(newValue) == IF newValue > 255 THEN 255 ELSE newValue

\* the clamp of applyLineMask
ClampByte(newValue) ==
  IF newValue < 0 THEN 0 ELSE IF newValue > 255 THEN 255 ELSE newValue

RECURSIVE LineMaskFrom(_, _, _, _, _, _)
LineMaskFrom(i, errMatrix, xs, ys, lineWeight, imgWidth) ==
  IF i > Len(xs) THEN errMatrix
  ELSE LET pixelIndex == ys[i] * imgWidth + xs[i]
           written ==
             IF pixelIndex >= 0 /\ pixelIndex < Cardinality(DOMAIN errMatrix)
             THEN [errMatrix EXCEPT
                     ![pixelIndex] = ClampByte(errMatrix[pixelIndex] - lineWeight)]
             ELSE errMatrix
       IN  LineMaskFrom(i + 1, written, xs, ys, lineWeight, imgWidth)

applyLineMaskSkipsFirst(errMatrix, xs, ys, lineWeight, imgWidth) ==
  LineMaskFrom(2, errMatrix, xs, ys, lineWeight, imgWidth)

\* subtract the line from the residual field, pixel by pixel, in order
applyLineMask(errMatrix, xs, ys, lineWeight, imgWidth) ==
  LineMaskFrom(1, errMatrix, xs, ys, lineWeight, imgWidth)

ImprovesOrTies(lineError, maxError) == lineError >= maxError

\* the comparison of the scan: strictly larger only
Improves(lineError, maxError) == lineError > maxError

RECURSIVE BestPinScan(_, _, _, _, _, _, _)
BestPinScan(i, validPins, best, pin, errMatrix, cache, p) ==
  IF i > Len(validPins) THEN best
  ELSE LET testPin == validPins[i]
           cacheIndex == testPin * p.numberOfPins + pin
           xs == cache.x[cacheIndex]
           ys == cache.y[cacheIndex]
           lineError == calculateLineError(errMatrix, xs.v, ys.v, p.imgSize)
                          * cache.weight[cacheIndex]
           next == IF ~xs.isNull /\ ~ys.isNull /\ Improves(lineError, best.error)
                   THEN [bestPin |-> testPin, error |-> lineError]
                   ELSE best
       IN  BestPinScan(i + 1, validPins, next, pin, errMatrix, cache, p)

findBestNextPinFromZero(pin, errMatrix, cache, recent, p) ==
  BestPinScan(1,
              getValidTargetPins(pin, p.minDistance, p.numberOfPins, recent),
              [bestPin |-> -1, error |-> 0],
              pin, errMatrix, cache, p)

\* maxError = -1, bestPin = -1, then a '>'-only scan of the valid pins
findBestNextPin(pin, errMatrix, cache, recent, p) ==
  BestPinScan(1,
              getValidTargetPins(pin, p.minDistance, p.numberOfPins, recent),
              [bestPin |-> -1, error |-> -1],
              pin, errMatrix, cache, p)

createErrorMatrixNoInvert(image, imgSize) ==
  [k \in 0..(imgSize * imgSize - 1) |->
     IF k \in DOMAIN image THEN image[k] ELSE 0]

\* Error = 255 - pixel_value, for every pixel of the image; the rest of the
\* Float32Array(imgSize * imgSize) stays 0
createErrorMatrix(image, imgSize) ==
  [k \in 0..(imgSize * imgSize - 1) |->
     IF k \in DOMAIN image THEN 255 - image[k] ELSE 0]

PushRecentShiftsEarly(recent, bestPin) ==
  LET pushed == Append(recent, bestPin)
  IN  IF Len(pushed) > 2 THEN Tail(pushed) ELSE pushed

\* lastPins.push(bestPin); if (lastPins.length > 20) lastPins.shift()
PushRecent(recent, bestPin) ==
  LET pushed == Append(recent, bestPin)
  IN  IF Len(pushed) > RecentWindow THEN Tail(pushed) ELSE pushed

\* mutant: the scale factor is inverted (imgSize / hoopDiameter)
ThreadIncrementInverted(p, pins, fromPin, toPin) ==
  (p.imgSize * calculatePinDistance(pins[fromPin], pins[toPin])) \div p.hoopDiameter

\* (params.hoopDiameter / params.imgSize) * distance, in 1/Milli
ThreadIncrement(p, pins, fromPin, toPin) ==
  (p.hoopDiameter * calculatePinDistance(pins[fromPin], pins[toPin])) \div p.imgSize

\* lineIndex % 10 === 0 || lineIndex === params.numberOfLines - 1
ReportsProgress(idx, p) ==
  idx % ProgressEvery = 0 \/ idx = p.numberOfLines - 1

\* mutant: lineSequence itself is passed to the callback, not a copy
SnapshotByReference(seq) == [alias |-> TRUE, items |-> seq]

\* [...lineSequence]: a fresh array holding the pins pushed so far
Snapshot(seq) == [alias |-> FALSE, items |-> seq]

\* what the holder of a snapshot reads from it now
SnapshotItems(snap, r) == IF snap.alias THEN lineSequence[r] ELSE snap.items

ProgressRecord(idx, p, pin, bestPin, threadLength) ==
  [ linesDrawn |-> idx + 1,
    totalLines |-> p.numberOfLines,
    percentComplete |-> ((idx + 1) * 100) \div p.numberOfLines,
    currentPin |-> pin,
    nextPin |-> bestPin,
    threadLength |-> threadLength ]

(* ------------------------------- inputs -------------------------------- *)
ImgSize == 4 * ImgQuarter + 1

\* pin counts of the small configurations (divisors of 24)
PinCounts == {3, 4, 6, 8}

\* line weights: the documented range, and values that drive both clamps
LineWeights == {-300, 20}

HoopDiameters == {12}

ParamsOf(nPins, nLines, weight, minDist, hoop) ==
  [ numberOfPins |-> nPins, numberOfLines |-> nLines, lineWeight |-> weight,
    minDistance |-> minDist, imgSize |-> ImgSize, hoopDiameter |-> hoop ]

SmallParams ==
  { p \in { ParamsOf(n, l, w, d, h) :
              n \in PinCounts, l \in 1..MaxLines, w \in LineWeights,
              d \in 1..MaxMinDistance, h \in HoopDiameters } :
      2 * p.minDistance < p.numberOfPins }

\* a run long enough for the recent window to fill, evict and re-admit
WindowParams ==
  { ParamsOf(24, RecentWindow + 2, 20, 1, h) : h \in HoopDiameters }

\* pixels of the top row and of the middle row
SpotPixels ==
  LET mid == ImgSize \div 2
  IN  {x : x \in 0..(ImgSize - 1)}
        \cup {mid * ImgSize + x : x \in 0..(ImgSize - 1)}

\* 8-bit images: a uniform background with one pixel of another level
Images ==
  { [k \in 0..(ImgSize * ImgSize - 1) |-> IF k = spot THEN lvl ELSE bg] :
      spot \in SpotPixels, lvl \in {0, 255}, bg \in {0, 255} }

\* the twin runs: 3 pins (the run stops early) and 4 pins (the image decides)
TwinParams == {p \in SmallParams : p.numberOfPins <= 4 /\ p.lineWeight = 20}

\* the pixels the filled disc of radius imgSize/2 centred at
\* (imgSize/2, imgSize/2) does not cover (pixel centres, doubled coordinates)
OutsideDisc(k, imgSize) ==
  LET x2 == 2 * (k % imgSize) + 1 - imgSize
      y2 == 2 * (k \div imgSize) + 1 - imgSize
  IN  x2 * x2 + y2 * y2 > imgSize * imgSize

\* the generateArt calls the model follows
MaxGenerations == 3
Generations == 1..MaxGenerations

\* the files the user can pick
Files == 1..2

PresetIds == {"fine", "bold", "soft", "pro"}

\* the component's state when it mounts
AppMounted ==
  /\ selectedImage = 0
  /\ isProcessing = FALSE
  /\ result = 0
  /\ progress = 0
  /\ error = FALSE
  /\ selectedPreset = "fine"
  /\ generation = [g \in Generations |-> "none"]

\* no exported function has been called directly
NoCall == [fn |-> "none"]

InitWith(paramSet, imageSet) ==
  /\ params \in paramSet
  /\ processedImageData \in imageSet
  /\ hasCallback \in BOOLEAN
  /\ pinCoords = calculatePins(params.numberOfPins, params.imgSize)
  /\ lineCache = precalculateLineCache(pinCoords, params.numberOfPins,
                                       params.minDistance)
  /\ errorMatrix = [r \in Runs |->
                      createErrorMatrix(processedImageData, params.imgSize)]
  /\ lineSequence = [r \in Runs |-> <<0>>]
  /\ currentPin = [r \in Runs |-> 0]
  /\ totalThreadLength = [r \in Runs |-> 0]
  /\ lastPins = [r \in Runs |-> <<>>]
  /\ lineIndex = [r \in Runs |-> 0]
  /\ pc = [r \in Runs |-> "loop"]
  /\ ticks = [r \in Runs |-> <<>>]
  /\ warned = [r \in Runs |-> FALSE]
  /\ cancelRequested = [r \in Runs |-> FALSE]
  /\ call = NoCall
  /\ ret = NoCall
  /\ AppMounted

\* a raster wide enough for a diagonal segment to list a pixel twice
WideSize == 2 * ImgSize - 1

WideParams ==
  { [ParamsOf(8, l, 20, 1, h) EXCEPT !.imgSize = WideSize] :
      l \in 1..2, h \in HoopDiameters }

\* white images of that raster with one black pixel: next to the corner,
\* or at the centre
WideImages ==
  { [k \in 0..(WideSize * WideSize - 1) |-> IF k = spot THEN 0 ELSE 255] :
      spot \in {WideSize + 1, (WideSize \div 2) * (WideSize + 1)} }

Init ==
  \/ InitWith(SmallParams \cup WindowParams, Images)
  \/ InitWith(WideParams, WideImages)

TwinInit == InitWith(TwinParams, Images)

(* ------------------------------- actions ------------------------------- *)
\* mutant: the recent window is one array shared by all runs
BestPinSharedWindow(r) ==
  findBestNextPin(currentPin[r], errorMatrix[r], lineCache,
                  lastPins[1] \o lastPins[2], params).bestPin

\* the pin the loop body picks from the state of run r
BestPin(r) ==
  findBestNextPin(currentPin[r], errorMatrix[r], lineCache, lastPins[r],
                  params).bestPin

\* mutant: the loop runs one iteration too many (<= for <)
InLoopBodyOffByOne(r) == pc[r] = "loop" /\ lineIndex[r] <= params.numberOfLines

InLoopBody(r) == pc[r] = "loop" /\ lineIndex[r] < params.numberOfLines

\* lines 184-206: push, mask, thread length, recent window, current pin
ApplyBest(r, bestPin) ==
  LET cacheIndex == bestPin * params.numberOfPins + currentPin[r]
      xs == lineCache.x[cacheIndex]
      ys == lineCache.y[cacheIndex]
  IN  /\ lineSequence' = [lineSequence EXCEPT ![r] = Append(@, bestPin)]
      /\ errorMatrix' =
           [errorMatrix EXCEPT ![r] =
              IF ~xs.isNull /\ ~ys.isNull
              THEN applyLineMask(@, xs.v, ys.v, params.lineWeight, params.imgSize)
              ELSE @]
      /\ totalThreadLength' =
           [totalThreadLength EXCEPT ![r] =
              @ + ThreadIncrement(params, pinCoords, currentPin[r], bestPin)]
      /\ lastPins' = [lastPins EXCEPT ![r] = PushRecent(@, bestPin)]
      /\ currentPin' = [currentPin EXCEPT ![r] = bestPin]

TickOfBeforeAdvance(r, bestPin) ==
  [ progress |-> ProgressRecord(lineIndex[r], params, currentPin[r], bestPin,
                                totalThreadLength'[r]),
    snapshot |-> Snapshot(lineSequence'[r]) ]

\* the tick handed to onProgress at line 222
TickOf(r, bestPin) ==
  [ progress |-> ProgressRecord(lineIndex[r], params, currentPin'[r], bestPin,
                                totalThreadLength'[r]),
    snapshot |-> Snapshot(lineSequence'[r]) ]

\* mutant: the pin is pushed before the -1 check
StopEarlyAfterPush(r) ==
  /\ InLoopBody(r)
  /\ BestPin(r) = -1
  /\ lineSequence' = [lineSequence EXCEPT ![r] = Append(@, -1)]
  /\ warned' = [warned EXCEPT ![r] = TRUE]
  /\ pc' = [pc EXCEPT ![r] = "done"]
  /\ UNCHANGED <<exported, app, inputs, errorMatrix, currentPin, totalThreadLength, lastPins,
                 lineIndex, ticks, cancelRequested>>

\* bestPin === -1: warn and break, then return
StopEarly(r) ==
  /\ InLoopBody(r)
  /\ BestPin(r) = -1
  /\ warned' = [warned EXCEPT ![r] = TRUE]
  /\ pc' = [pc EXCEPT ![r] = "done"]
  /\ UNCHANGED <<exported, app, inputs, errorMatrix, lineSequence, currentPin,
                 totalThreadLength, lastPins, lineIndex, ticks, cancelRequested>>

\* an iteration that publishes no progress: straight on to the next one
ApplyLine(r) ==
  /\ InLoopBody(r)
  /\ BestPin(r) # -1
  /\ ~(hasCallback /\ ReportsProgress(lineIndex[r], params))
  /\ ApplyBest(r, BestPin(r))
  /\ lineIndex' = [lineIndex EXCEPT ![r] = @ + 1]
  /\ UNCHANGED <<exported, app, inputs, pc, ticks, warned, cancelRequested>>

\* an iteration that publishes progress; the callback returns and the
\* solver awaits the zero-delay timer
ApplyLineAndReport(r) ==
  /\ InLoopBody(r)
  /\ BestPin(r) # -1
  /\ hasCallback /\ ReportsProgress(lineIndex[r], params)
  /\ ApplyBest(r, BestPin(r))
  /\ ticks' = [ticks EXCEPT ![r] = Append(@, TickOf(r, BestPin(r)))]
  /\ pc' = [pc EXCEPT ![r] = "yield"]
  /\ UNCHANGED <<exported, app, inputs, lineIndex, warned, cancelRequested>>

\* an iteration that publishes progress; the callback throws, nothing
\* catches it and the promise of the async function rejects
ApplyLineCallbackThrows(r) ==
  /\ InLoopBody(r)
  /\ BestPin(r) # -1
  /\ hasCallback /\ ReportsProgress(lineIndex[r], params)
  /\ ApplyBest(r, BestPin(r))
  /\ ticks' = [ticks EXCEPT ![r] = Append(@, TickOf(r, BestPin(r)))]
  /\ pc' = [pc EXCEPT ![r] = "rejected"]
  /\ UNCHANGED <<exported, app, inputs, lineIndex, warned, cancelRequested>>

\* the host fires the timer: the await resumes, lineIndex++
TimerFires(r) ==
  /\ pc[r] = "yield"
  /\ pc' = [pc EXCEPT ![r] = "loop"]
  /\ lineIndex' = [lineIndex EXCEPT ![r] = @ + 1]
  /\ UNCHANGED <<exported, app, inputs, errorMatrix, lineSequence, currentPin,
                 totalThreadLength, lastPins, ticks, warned, cancelRequested>>

ReturnBeforeLastLine(r) ==
  /\ pc[r] = "loop"
  /\ lineIndex[r] + 1 >= params.numberOfLines
  /\ pc' = [pc EXCEPT ![r] = "done"]
  /\ UNCHANGED <<exported, app, inputs, errorMatrix, lineSequence, currentPin,
                 totalThreadLength, lastPins, lineIndex, ticks, warned,
                 cancelRequested>>

\* lineIndex reached numberOfLines: return {lineSequence, totalThreadLength}
Return(r) ==
  /\ pc[r] = "loop"
  /\ lineIndex[r] >= params.numberOfLines
  /\ pc' = [pc EXCEPT ![r] = "done"]
  /\ UNCHANGED <<exported, app, inputs, errorMatrix, lineSequence, currentPin,
                 totalThreadLength, lastPins, lineIndex, ticks, warned,
                 cancelRequested>>

\* the host asks for cancellation while the solver is suspended
RequestCancel(r) ==
  /\ pc[r] = "yield"
  /\ ~cancelRequested[r]
  /\ cancelRequested' = [cancelRequested EXCEPT ![r] = TRUE]
  /\ UNCHANGED <<exported, app, inputs, locals>>

RunStep(r) ==
  \/ StopEarly(r)
  \/ ApplyLine(r)
  \/ ApplyLineAndReport(r)
  \/ ApplyLineCallbackThrows(r)
  \/ TimerFires(r)
  \/ Return(r)
  \/ RequestCancel(r)

Next == RunStep(1)

Spec == Init /\ [][Next]_vars

\* the synchronous code of the solver between two awaits
SolverStep(r) ==
  \/ StopEarly(r)
  \/ ApplyLine(r)
  \/ ApplyLineAndReport(r)
  \/ ApplyLineCallbackThrows(r)
  \/ Return(r)

\* the solver has synchronous code to run: it is not suspended at an await
\* and has not ended (one of the steps above is then enabled)
SolverReady(r) == pc[r] = "loop"

\* the solver's code runs whenever it is ready (weak fairness of
\* SolverStep, spelled with its enabling condition), and the host fires
\* every zero-delay timer the solver awaits
LiveSpec ==
  /\ Init /\ [][Next]_vars
  /\ ([]<>~SolverReady(1) \/ []<><<SolverStep(1)>>_vars)
  /\ WF_vars(TimerFires(1))

TwinNext == \E r \in Runs : RunStep(r)

TwinSpec == TwinInit /\ [][TwinNext]_vars

(* ------------------------------- claims -------------------------------- *)
\* the sequence read from the i-th tick of run r
TickItems(r, i) == SnapshotItems(ticks[r][i].snapshot, r)

\* C1: in every state of a run, in every progress snapshot and at return,
\* the line sequence has between 1 and numberOfLines + 1 elements and its
\* first element is pin 0.
C1_SequenceLength ==
  \A r \in Runs :
    /\ Len(lineSequence[r]) >= 1
    /\ Len(lineSequence[r]) <= params.numberOfLines + 1
    /\ lineSequence[r][1] = 0
    /\ \A i \in 1..Len(ticks[r]) :
         /\ Len(TickItems(r, i)) >= 1
         /\ Len(TickItems(r, i)) <= params.numberOfLines + 1
         /\ TickItems(r, i)[1] = 0

\* a run returned a full sequence and delivered snapshots on the way
C1_Witness ==
  /\ pc[1] = "done"
  /\ params.numberOfLines >= 2
  /\ Len(lineSequence[1]) = params.numberOfLines + 1
  /\ Len(ticks[1]) >= 2

\* ring distance of the claims: min(|b - a|, n - |b - a|)
RingDistance(a, b, n) ==
  IF Abs(b - a) < n - Abs(b - a) THEN Abs(b - a) ELSE n - Abs(b - a)

\* C2: consecutive elements of the sequence are at least minDistance apart
\* on the ring, for 1 <= minDistance < numberOfPins / 2.
C2_MinDistance ==
  \A r \in Runs :
    (params.minDistance >= 1 /\ 2 * params.minDistance < params.numberOfPins)
      => \A i \in 1..(Len(lineSequence[r]) - 1) :
           RingDistance(lineSequence[r][i], lineSequence[r][i + 1],
                        params.numberOfPins) >= params.minDistance

\* a run with minDistance >= 2 took a chord of exactly that ring distance,
\* across the wrap-around of the ring
C2_Witness ==
  /\ params.minDistance >= 2
  /\ \E i \in 1..(Len(lineSequence[1]) - 1) :
       /\ RingDistance(lineSequence[1][i], lineSequence[1][i + 1],
                       params.numberOfPins) = params.minDistance
       /\ Abs(lineSequence[1][i + 1] - lineSequence[1][i]) > params.minDistance

\* C3: for every index i >= 1 of Q, Q[i] differs from each of
\* Q[max(1, i-20)] .. Q[i-1]  (lineSequence[r][j + 1] is Q[j]).
C3_RecentWindow ==
  \A r \in Runs :
    \A i \in 1..(Len(lineSequence[r]) - 1) :
      \A j \in 1..(i - 1) :
        j >= i - RecentWindow
          => lineSequence[r][i + 1] # lineSequence[r][j + 1]

\* the window has evicted a pin and the solver has chosen that pin again
C3_Witness ==
  \E i \in 1..(Len(lineSequence[1]) - 1) :
    \E j \in 1..(i - 1) :
      /\ j < i - RecentWindow
      /\ lineSequence[1][i + 1] = lineSequence[1][j + 1]

\* C4: every element of the residual field lies in [0, 255] in every
\* reachable state: after createErrorMatrix, after every write of
\* applyLineMask (for any line weight), and at return.
C4_ResidualRange ==
  \A r \in Runs :
    \A k \in DOMAIN errorMatrix[r] :
      errorMatrix[r][k] >= 0 /\ errorMatrix[r][k] <= 255

\* a negative weight drove a pixel that started at 0 up to the clamp
C4_Witness ==
  /\ params.lineWeight < 0
  /\ Len(lineSequence[1]) >= 2
  /\ \E k \in DOMAIN errorMatrix[1] :
       processedImageData[k] = 255 /\ errorMatrix[1][k] = 255

\* (hoop_diameter / img_size) * euclid(pin[a], pin[b]), in 1/Milli
C5_PairLength(a, b) ==
  (params.hoopDiameter * calculatePinDistance(pinCoords[a], pinCoords[b]))
    \div params.imgSize

RECURSIVE C5_SumOfPairs(_)
C5_SumOfPairs(q) ==
  IF Len(q) < 2 THEN 0
  ELSE C5_PairLength(q[1], q[2]) + C5_SumOfPairs(Tail(q))

\* C5: at return and at every progress tick, the accumulated thread length
\* is the sum over the consecutive pairs of the sequence built so far of
\* (hoop_diameter / img_size) * euclid(pin[a], pin[b]); it is 0 for Q = [0].
C5_ThreadLength ==
  \A r \in Runs :
    /\ totalThreadLength[r] = C5_SumOfPairs(lineSequence[r])
    /\ (Len(lineSequence[r]) = 1 => totalThreadLength[r] = 0)
    /\ \A i \in 1..Len(ticks[r]) :
         ticks[r][i].progress.threadLength = C5_SumOfPairs(TickItems(r, i))

\* a finished run of several lines with a positive length and a tick
C5_Witness ==
  /\ pc[1] = "done"
  /\ Len(lineSequence[1]) >= 3
  /\ Len(ticks[1]) >= 1
  /\ totalThreadLength[1] > 0

\* C6: two runs started from equal inputs return the same line sequence,
\* the same thread length and the same final residual field, whatever the
\* host does at the yield points.
C6_Determinism ==
  (pc[1] = "done" /\ pc[2] = "done")
    => /\ lineSequence[1] = lineSequence[2]
       /\ totalThreadLength[1] = totalThreadLength[2]
       /\ errorMatrix[1] = errorMatrix[2]

\* both runs returned after several lines; the host treated them differently
C6_Witness ==
  /\ pc[1] = "done" /\ pc[2] = "done"
  /\ params.numberOfPins = 4
  /\ Len(lineSequence[1]) >= 3
  /\ cancelRequested[1] /\ ~cancelRequested[2]

\* what C7 asks of the ticks delivered so far, in one state
C7_TicksConsistent ==
  \A r \in Runs :
    \A i \in 1..Len(ticks[r]) :
      LET t == ticks[r][i].progress.linesDrawn
      IN  /\ i > 1 => ticks[r][i - 1].progress.linesDrawn < t
          /\ Len(TickItems(r, i)) = t + 1
          /\ t + 1 <= Len(lineSequence[r])
          /\ TickItems(r, i) = SubSeq(lineSequence[r], 1, t + 1)

\* a snapshot already delivered reads the same after a step
C7_TicksStable ==
  \A r \in Runs :
    \A i \in 1..Len(ticks[r]) : TickItems(r, i)' = TickItems(r, i)

\* C7: progress ticks are delivered with strictly increasing lines_drawn;
\* the snapshot of the tick with lines_drawn = t has exactly t + 1 pins,
\* is the prefix Q[0..t] of the sequence (in every later state, so of the
\* final one), and is not changed by later solver steps.
C7_ProgressOrder == []C7_TicksConsistent /\ [][C7_TicksStable]_vars

\* three ticks were delivered and the run went on to return
C7_Witness ==
  /\ pc[1] = "done"
  /\ Len(ticks[1]) >= 3
  /\ Len(lineSequence[1]) > ticks[1][1].progress.linesDrawn + 1

\* C8: when cancellation is requested while a run is suspended at a yield
\* point, the solver observes it there, applies no further line and returns
\* the partial sequence and thread length built so far.
C8_CancelStopsRun ==
  [][\A r \in Runs :
       cancelRequested[r]
         => /\ lineSequence'[r] = lineSequence[r]
            /\ totalThreadLength'[r] = totalThreadLength[r]
            /\ errorMatrix'[r] = errorMatrix[r]
            /\ pc'[r] \in {"yield", "done"}]_vars

\* C9: an exception thrown by the progress callback does not derail the
\* solver: the run continues and returns its normal result, it is never
\* rejected.
C9_CallbackThrowSwallowed ==
  \A r \in Runs : pc[r] # "rejected"

\* the step taken when no candidate can be chosen
C10_AbortedStep ==
  (InLoopBody(1) /\ BestPin(1) = -1)
    => /\ pc'[1] = "done"
       /\ lineSequence'[1] = lineSequence[1]
       /\ errorMatrix'[1] = errorMatrix[1]
       /\ totalThreadLength'[1] = totalThreadLength[1]
       /\ lastPins'[1] = lastPins[1]
       /\ ticks'[1] = ticks[1]

\* a run that stopped early returned, without an error, a short sequence
C10_TruncatedResult ==
  warned[1]
    => /\ pc[1] = "done"
       /\ Len(lineSequence[1]) < params.numberOfLines + 1
       /\ totalThreadLength[1] = C5_SumOfPairs(lineSequence[1])

\* C10: when findBestNextPin returns -1 the solver stops early without an
\* error; the aborted step changes neither Q, nor the residual field, nor
\* the thread length, nor the recent window, and the result returned has
\* fewer than numberOfLines + 1 elements.
C10_StopEarly == []C10_TruncatedResult /\ [][C10_AbortedStep]_vars

\* a run stopped early after applying at least one line
C10_Witness ==
  /\ warned[1]
  /\ pc[1] = "done"
  /\ Len(lineSequence[1]) >= 2

\* C11: the cache built by precalculateLineCache for the run's minimum
\* distance holds an entry for a pair of distinct pins (a, b) exactly when
\* the ring distance of a and b is at least that minimum; a pair closer than
\* the minimum in either direction around the ring has no entry.
C11_CacheAdmissible ==
  \A a, b \in 0..(params.numberOfPins - 1) :
    a # b =>
      (~lineCache.x[a * params.numberOfPins + b].isNull
         <=> RingDistance(a, b, params.numberOfPins) >= params.minDistance)

\* ---------------------------------------------------------------------
\* The exported functions called directly (as the unit tests call them)
\* ---------------------------------------------------------------------

\* an optional numeric field of Partial<StringArtParameters>: absent, or
\* the number twice / 2 (halves stand for the non-integers)
Undefined == [defined |-> FALSE, twice |-> 0]

Num(twice) == [defined |-> TRUE, twice |-> twice]

IsIntegerAlways(v) == TRUE

\* Number.isInteger
IsInteger(v) == v.twice % 2 = 0

\* the three checks of one field, in the order of the code
FieldErrors(v, least, most, tooSmall, tooLarge, notInteger) ==
  IF ~v.defined THEN <<>>
  ELSE (IF v.twice < 2 * least THEN <<tooSmall>> ELSE <<>>)
         \o (IF v.twice > 2 * most THEN <<tooLarge>> ELSE <<>>)
         \o (IF ~IsInteger(v) THEN <<notInteger>> ELSE <<>>)

validatePinParameters(p) ==
  LET errors ==
        FieldErrors(p.numberOfPins, 3, 1000,
                    "Number of pins must be at least 3",
                    "Number of pins should not exceed 1000 for performance reasons",
                    "Number of pins must be an integer")
          \o FieldErrors(p.imgSize, 100, 2000,
                    "Image size must be at least 100 pixels",
                    "Image size should not exceed 2000 pixels for performance reasons",
                    "Image size must be an integer")
  IN  [isValid |-> Len(errors) = 0, errors |-> errors]

\* how a call ended: with a value, or with an exception
Returned(v) == [threw |-> FALSE, value |-> v]

\* the values a test passes for numberOfPins: around both limits
PinArguments ==
  {Undefined} \cup {Num(t) : t \in {4, 5, 6, 7, 200, 2000, 2001, 2002}}

\* the values a test passes for imgSize: around both limits
SizeArguments ==
  {Undefined} \cup {Num(t) : t \in {100, 199, 200, 201, 1000, 4000, 4001, 4002}}

\* pin counts (divisors of 24; 1 and 2 are below the documented minimum)
PlacedPinCounts == {1, 2, 3, 4, 6, 8, 12, 24}

\* raster sides (99 is below the documented minimum)
PlacedSizes == {99, 100, 101, 102, 103, 200, 500}

\* ring sizes, and the exclusion lists passed to getValidTargetPins
RingSizes == {4, 10}

ExcludeLists == {<< >>, <<3, 5>>, <<2, 7, 4>>}

CallValidatePinParameters ==
  \E n \in PinArguments, s \in SizeArguments :
    LET p == [numberOfPins |-> n, imgSize |-> s]
    IN  /\ call' = [fn |-> "validatePinParameters", params |-> p]
        /\ ret' = Returned(validatePinParameters(p))
        /\ UNCHANGED <<inputs, locals, cancelRequested, app>>

CallCalculatePins ==
  \E n \in PlacedPinCounts, s \in PlacedSizes :
    /\ call' = [fn |-> "calculatePins", numberOfPins |-> n, imgSize |-> s]
    /\ ret' = Returned(calculatePins(n, s))
    /\ UNCHANGED <<inputs, locals, cancelRequested, app>>

CallGetValidTargetPins ==
  \E n \in RingSizes, d \in 1..MaxMinDistance, e \in ExcludeLists :
    \E c \in 0..(n - 1) :
      /\ call' = [fn |-> "getValidTargetPins", currentPin |-> c,
                  minDistance |-> d, numberOfPins |-> n, excludePins |-> e]
      /\ ret' = Returned(getValidTargetPins(c, d, n, e))
      /\ UNCHANGED <<inputs, locals, cancelRequested, app>>

CallCreateErrorMatrix ==
  \E image \in Images :
    /\ call' = [fn |-> "createErrorMatrix", processedImageData |-> image,
                imgSize |-> ImgSize]
    /\ ret' = Returned(createErrorMatrix(image, ImgSize))
    /\ UNCHANGED <<inputs, locals, cancelRequested, app>>

\* tables of two pins with integer coordinates
PinPairs ==
  { [i \in 0..1 |-> IF i = 0 THEN a ELSE b] :
      a \in {<<0, 0>>, <<1, 2>>},
      b \in {0, 1, 2, 13, 14} \X {0, 2, 3, 21} }

CallPrecalculateLineCache ==
  \E pins \in PinPairs, d \in 1..MaxMinDistance :
    /\ call' = [fn |-> "precalculateLineCache", pinCoords |-> pins,
                numPins |-> 2, minDistance |-> d]
    /\ ret' = Returned(precalculateLineCache(pins, 2, d))
    /\ UNCHANGED <<inputs, locals, cancelRequested, app>>

\* GRAYSCALE_WEIGHTS, in thousandths
GrayscaleWeights == [red |-> 299, green |-> 587, blue |-> 114]

\* channel values of the pixels converted
Channels == {0, 2, 5, 9, 17, 255}

\* the pixels <<r, g, b>> over Channels whose exact weighted sum ends in
\* one half while the double sum lies just below it (12.499999999999998)
WeightedSumFallsShort == {<<5, 17, 9>>}

GrayFloored(r, g, b) ==
  (GrayscaleWeights.red * r + GrayscaleWeights.green * g
     + GrayscaleWeights.blue * b) \div 1000

\* gray = Math.round(weights.red * r + weights.green * g + weights.blue * b)
Gray(r, g, b) ==
  LET sum == GrayscaleWeights.red * r + GrayscaleWeights.green * g
               + GrayscaleWeights.blue * b
  IN  IF <<r, g, b>> \in WeightedSumFallsShort
      THEN sum \div 1000
      ELSE (sum + 500) \div 1000

\* one pixel of convertToGrayscale: the three colour channels are set to
\* gray, alpha is copied
convertToGrayscale(pixel) ==
  LET gray == Gray(pixel[1], pixel[2], pixel[3])
  IN  <<gray, gray, gray, pixel[4]>>

CallConvertToGrayscale ==
  \E r \in Channels, g \in Channels, b \in Channels, a \in {0, 255} :
    /\ call' = [fn |-> "convertToGrayscale", pixel |-> <<r, g, b, a>>]
    /\ ret' = Returned(convertToGrayscale(<<r, g, b, a>>))
    /\ UNCHANGED <<inputs, locals, cancelRequested, app>>

CallNext ==
  \/ CallValidatePinParameters
  \/ CallCalculatePins
  \/ CallGetValidTargetPins
  \/ CallCreateErrorMatrix
  \/ CallPrecalculateLineCache
  \/ CallConvertToGrayscale

\* the functions are called on their own: no run is in progress
CallInit ==
  InitWith({ParamsOf(4, 1, 20, 1, 12)},
           {[k \in 0..(ImgSize * ImgSize - 1) |-> 0]})

CallSpec == CallInit /\ [][CallNext]_vars

\* the elements of a sequence
C12_Elements(seq) == {seq[i] : i \in 1..Len(seq)}

\* a supplied field is an integer of the documented range
C12_FieldOk(v, least, most) ==
  v.defined => (v.twice % 2 = 0 /\ v.twice \div 2 >= least /\ v.twice \div 2 <= most)

\* the messages the documented rules give for the fields supplied
C12_Violated(p) ==
  LET n == p.numberOfPins
      s == p.imgSize
  IN  {m \in {"Number of pins must be at least 3"} : n.defined /\ n.twice < 6}
        \cup {m \in {"Number of pins should not exceed 1000 for performance reasons"} :
                n.defined /\ n.twice > 2000}
        \cup {m \in {"Number of pins must be an integer"} :
                n.defined /\ n.twice % 2 = 1}
        \cup {m \in {"Image size must be at least 100 pixels"} :
                s.defined /\ s.twice < 200}
        \cup {m \in {"Image size should not exceed 2000 pixels for performance reasons"} :
                s.defined /\ s.twice > 4000}
        \cup {m \in {"Image size must be an integer"} :
                s.defined /\ s.twice % 2 = 1}

\* C12: validatePinParameters is a pure predicate: isValid is true exactly
\* when errors is empty; for the fields supplied, errors holds exactly the
\* messages of the violated rules (each once); so isValid holds iff every
\* supplied numberOfPins is an integer in [3, 1000] and every supplied
\* imgSize is an integer in [100, 2000].
C12_ValidationPredicate ==
  call.fn = "validatePinParameters"
    => /\ ret.threw = FALSE
       /\ ret.value.isValid <=> (ret.value.errors = << >>)
       /\ C12_Elements(ret.value.errors) = C12_Violated(call.params)
       /\ Len(ret.value.errors) = Cardinality(C12_Violated(call.params))
       /\ ret.value.isValid
            <=> (C12_FieldOk(call.params.numberOfPins, 3, 1000)
                   /\ C12_FieldOk(call.params.imgSize, 100, 2000))

\* a call with a non-integer pin count inside the range and a valid size:
\* the only error is the integer rule
C12_Witness ==
  /\ call.fn = "validatePinParameters"
  /\ call.params.numberOfPins = Num(7)
  /\ call.params.imgSize = Num(1000)
  /\ ret.value.errors = <<"Number of pins must be an integer">>
  /\ ~ret.value.isValid

\* C13: the pin placer rejects invalid parameters: called with a pin count
\* outside the integers [3, 1000] or a raster side outside the integers
\* [100, 2000], it fails and produces no pin array.
C13_PlacerRejectsInvalid ==
  (/\ call.fn = "calculatePins"
   /\ \/ call.numberOfPins < 3 \/ call.numberOfPins > 1000
      \/ call.imgSize < 100 \/ call.imgSize > 2000)
    => ret.threw

\* the pins a call of calculatePins with documented arguments returned
C14_PlacedPins ==
  IF call.fn = "calculatePins" /\ call.numberOfPins >= 3 /\ call.imgSize >= 100
  THEN {ret.value[i] : i \in DOMAIN ret.value}
  ELSE {}

\* squared distance of a pin to the centre (imgSize/2, imgSize/2), times 4
C14_Dist2(pin, imgSize) ==
  (2 * pin[1] - imgSize) * (2 * pin[1] - imgSize)
    + (2 * pin[2] - imgSize) * (2 * pin[2] - imgSize)

\* C14 (as stated): every pin has 0 <= x, y < imgSize and its distance to
\* the centre lies in [imgSize/2 - 1.5, imgSize/2 - 0.5].
C14_PinsInNarrowRing ==
  \A pin \in C14_PlacedPins :
    /\ pin[1] >= 0 /\ pin[1] < call.imgSize
    /\ pin[2] >= 0 /\ pin[2] < call.imgSize
    /\ C14_Dist2(pin, call.imgSize) >= (call.imgSize - 3) * (call.imgSize - 3)
    /\ C14_Dist2(pin, call.imgSize) <= (call.imgSize - 1) * (call.imgSize - 1)

\* C14 (amended): every pin has 0 <= x, y < imgSize and its distance to the
\* centre lies in [imgSize/2 - 2, imgSize/2 + 1]: flooring moves each
\* coordinate of the point at distance imgSize/2 - 0.5 by at most one pixel.
\* For 4 pins on a side of 200 the pins are (199,100), (100,199), (0,100)
\* and (99,0).
C14_PinsInRing ==
  /\ \A pin \in C14_PlacedPins :
       /\ pin[1] >= 0 /\ pin[1] < call.imgSize
       /\ pin[2] >= 0 /\ pin[2] < call.imgSize
       /\ C14_Dist2(pin, call.imgSize) >= (call.imgSize - 4) * (call.imgSize - 4)
       /\ C14_Dist2(pin, call.imgSize) <= (call.imgSize + 2) * (call.imgSize + 2)
  /\ (call.fn = "calculatePins" /\ call.numberOfPins = 4 /\ call.imgSize = 200)
       => ret.value = [i \in 0..3 |->
                         <<<<199, 100>>, <<100, 199>>, <<0, 100>>, <<99, 0>>>>[i + 1]]

\* the four axis pins of a side of 200: the pin at 180 degrees lies at
\* distance 100 from the centre, beyond imgSize/2 - 0.5
C14_Witness ==
  /\ call.fn = "calculatePins"
  /\ call.numberOfPins = 4
  /\ call.imgSize = 200
  /\ ret.value[2] = <<0, 100>>
  /\ C14_Dist2(ret.value[2], 200) > 199 * 199

\* the run's image is all white and its ring leaves more than a window of
\* candidates: numberOfPins - 2 * minDistance > 20
C15_WhiteInstance ==
  /\ \A k \in DOMAIN processedImageData : processedImageData[k] = 255
  /\ params.numberOfPins - 2 * params.minDistance > RecentWindow
  /\ params.lineWeight = 20

\* C15: on an all-white image with numberOfPins - 2 * minDistance > 20 and
\* line weight 20, every entry of the residual field is 0 at the start and
\* in every state of the run, and the solver returns exactly
\* numberOfLines + 1 pins with a total thread length above 0.
C15_AllWhite ==
  C15_WhiteInstance
    => \A r \in Runs :
         /\ \A k \in DOMAIN errorMatrix[r] : errorMatrix[r][k] = 0
         /\ pc[r] = "done"
              => /\ Len(lineSequence[r]) = params.numberOfLines + 1
                 /\ totalThreadLength[r] > 0

\* a white run that returned its full sequence
C15_Witness ==
  /\ C15_WhiteInstance
  /\ pc[1] = "done"
  /\ Len(lineSequence[1]) = params.numberOfLines + 1
  /\ totalThreadLength[1] > 0

\* the offsets min..max in increasing order
C16_Offsets(min, max) == [j \in 1..(IF max >= min THEN max - min + 1 ELSE 0) |-> min + j - 1]

\* the offsets from minDistance to numberOfPins - minDistance - 1 whose pin
\* (current + o) mod numberOfPins is not excluded, in increasing order
C16_KeptOffsets(c) ==
  SelectSeq(C16_Offsets(c.minDistance, c.numberOfPins - c.minDistance - 1),
            LAMBDA o : \A j \in 1..Len(c.excludePins) :
                         c.excludePins[j] # (c.currentPin + o) % c.numberOfPins)

\* C16: getValidTargetPins(current, minDistance, numberOfPins, exclude)
\* returns, in increasing offset order, exactly the pins
\* (current + o) mod numberOfPins for o from minDistance to
\* numberOfPins - minDistance - 1 that are not in exclude; (0,2,10,{})
\* gives [2,3,4,5,6,7], (0,2,10,{3,5}) gives [2,4,6,7], (0,1,4,{}) gives [1,2].
C16_ValidTargets ==
  call.fn = "getValidTargetPins"
    => /\ ret.threw = FALSE
       /\ LET kept == C16_KeptOffsets(call)
          IN  ret.value = [j \in 1..Len(kept) |->
                             (call.currentPin + kept[j]) % call.numberOfPins]
       /\ (call.currentPin = 0 /\ call.minDistance = 2 /\ call.numberOfPins = 10)
            => /\ call.excludePins = << >> => ret.value = <<2, 3, 4, 5, 6, 7>>
               /\ call.excludePins = <<3, 5>> => ret.value = <<2, 4, 6, 7>>
       /\ (call.currentPin = 0 /\ call.minDistance = 1 /\ call.numberOfPins = 4
             /\ call.excludePins = << >>)
            => ret.value = <<1, 2>>

\* a call whose walk wraps around the ring and skips excluded pins
C16_Witness ==
  /\ call.fn = "getValidTargetPins"
  /\ call.currentPin = 6
  /\ call.minDistance = 2
  /\ call.numberOfPins = 10
  /\ call.excludePins = <<3, 5>>
  /\ ret.value = <<8, 9, 0, 1, 2>>

\* createErrorMatrix was called on an all-black disc: 0 inside the circle
\* and 0 at the masked pixels outside it
C17_BlackDisc ==
  /\ call.fn = "createErrorMatrix"
  /\ \A k \in DOMAIN call.processedImageData : call.processedImageData[k] = 0

\* C17 (as stated): for an all-black disc the initial residual field is 255
\* at every pixel inside the disc and 0 at every pixel outside the disc.
C17_ZeroOutsideDisc ==
  C17_BlackDisc
    => \A k \in DOMAIN ret.value :
         ret.value[k] = IF OutsideDisc(k, call.imgSize) THEN 0 ELSE 255

\* C17 (amended): for an all-black disc the initial residual field is 255
\* at every pixel, inside the disc and at the masked pixels outside it.
C17_BlackDiscResidual ==
  C17_BlackDisc
    => /\ DOMAIN ret.value = 0..(call.imgSize * call.imgSize - 1)
       /\ \A k \in DOMAIN ret.value : ret.value[k] = 255

\* the corner pixel is outside the disc, the centre pixel inside; both
\* start at 255
C17_Witness ==
  /\ C17_BlackDisc
  /\ OutsideDisc(0, call.imgSize)
  /\ ~OutsideDisc((call.imgSize \div 2) * (call.imgSize + 1), call.imgSize)
  /\ ret.value[0] = 255
  /\ ret.value[(call.imgSize \div 2) * (call.imgSize + 1)] = 255

\* the non-recent candidates of run r: the pins at ring offsets
\* minDistance .. numberOfPins - minDistance - 1 from the current pin
C18_Candidates(r) ==
  { c \in 0..(params.numberOfPins - 1) :
      /\ \E o \in params.minDistance..(params.numberOfPins - params.minDistance - 1) :
           c = (currentPin[r] + o) % params.numberOfPins
      /\ \A j \in 1..Len(lastPins[r]) : lastPins[r][j] # c }

\* ring offset of pin c from the current pin of run r
C18_Offset(r, c) == (c - currentPin[r] + params.numberOfPins) % params.numberOfPins

RECURSIVE C18_SumOver(_, _, _, _)
C18_SumOver(field, xs, ys, i) ==
  IF i > Len(xs) THEN 0
  ELSE field[ys[i] * params.imgSize + xs[i]] + C18_SumOver(field, xs, ys, i + 1)

\* sum of the residual field over the pixels of the cached segment between
\* the current pin of run r and pin c
C18_Score(r, c) ==
  LET slot == currentPin[r] * params.numberOfPins + c
  IN  C18_SumOver(errorMatrix[r], lineCache.x[slot].v, lineCache.y[slot].v, 1)

\* pin b is a best choice for run r: a candidate of maximal score, first in
\* the walk among the candidates of that score
C18_IsBest(r, b) ==
  /\ b \in C18_Candidates(r)
  /\ \A c \in C18_Candidates(r) :
       /\ C18_Score(r, c) <= C18_Score(r, b)
       /\ C18_Score(r, c) = C18_Score(r, b) => C18_Offset(r, b) <= C18_Offset(r, c)

\* C18: at every step the pin appended to the sequence is a non-recent
\* candidate whose score (sum of F over the cached segment from the current
\* pin) is maximal among all non-recent candidates, and among candidates of
\* equal maximal score the one with the smallest ring offset.
C18_GreedyChoice ==
  [][\A r \in Runs :
       lineSequence'[r] # lineSequence[r]
         => /\ Len(lineSequence'[r]) = Len(lineSequence[r]) + 1
            /\ C18_IsBest(r, lineSequence'[r][Len(lineSequence'[r])])]_vars

\* a step at which two candidates tie for a positive maximal score and the
\* solver is about to take the nearer one
C18_Witness ==
  /\ InLoopBody(1)
  /\ Len(lineSequence[1]) >= 2
  /\ BestPin(1) # -1
  /\ C18_Score(1, BestPin(1)) > 0
  /\ \E c \in C18_Candidates(1) :
       /\ c # BestPin(1)
       /\ C18_Score(1, c) = C18_Score(1, BestPin(1))
       /\ C18_Offset(1, c) > C18_Offset(1, BestPin(1))
  /\ \E c \in C18_Candidates(1) : C18_Score(1, c) < C18_Score(1, BestPin(1))

\* C19: a progress record is published for the final line of every run that
\* has a progress callback: when the solver returns, whether after
\* numberOfLines lines or after stopping early on an empty candidate set,
\* the last record published has linesDrawn equal to the number of lines
\* applied (the length of the line sequence minus 1).
C19_FinalRecord ==
  \A r \in Runs :
    (pc[r] = "done" /\ hasCallback /\ Len(lineSequence[r]) >= 2)
      => /\ Len(ticks[r]) >= 1
         /\ ticks[r][Len(ticks[r])].progress.linesDrawn = Len(lineSequence[r]) - 1

\* C20: no element of the sequence Q equals any of the 20 elements
\* immediately before it in Q (all earlier elements when fewer than 20
\* exist), the start pin Q[0] = 0 counted among those earlier elements.
C20_NoRepeatWithStart ==
  \A r \in Runs :
    \A i \in 1..Len(lineSequence[r]) :
      \A j \in 1..(i - 1) :
        i - j <= RecentWindow => lineSequence[r][i] # lineSequence[r][j]

C22_FloorSqrt(n) == CHOOSE d \in 0..n : d * d <= n /\ (d + 1) * (d + 1) > n

\* the d samples floor(from + (to - from) * i / (d - 1)), i in 0..d-1
C22_Samples(from, to, d) ==
  IF d = 0 THEN << >>
  ELSE IF d = 1 THEN <<from>>
  ELSE [j \in 1..d |->
          CHOOSE v \in -1..(from + to) :
            /\ v * (d - 1) <= from * (d - 1) + (to - from) * (j - 1)
            /\ (v + 1) * (d - 1) > from * (d - 1) + (to - from) * (j - 1)]

\* C22: for every cached pair (a, b) with integer pin coordinates and
\* d = floor(euclid(pin[a], pin[b])): the entry has exactly d samples,
\* x_i = floor(xa + (xb - xa) * i / (d - 1)) and y_i likewise, so for
\* d >= 2 the first sample is pin a and the last is pin b; for d = 1 it is
\* the single start point, for d = 0 it is empty; d is the recorded length.
C22_EntryShape ==
  (call.fn = "precalculateLineCache" /\ call.minDistance = 1)
    => LET a == call.pinCoords[0]
           b == call.pinCoords[1]
           d == C22_FloorSqrt((b[1] - a[1]) * (b[1] - a[1])
                                + (b[2] - a[2]) * (b[2] - a[2]))
           xs == ret.value.x[1]
           ys == ret.value.y[1]
       IN  /\ ~xs.isNull /\ ~ys.isNull
           /\ ret.value.length[1] = d
           /\ xs.v = C22_Samples(a[1], b[1], d)
           /\ ys.v = C22_Samples(a[2], b[2], d)
           /\ d >= 2 => /\ <<xs.v[1], ys.v[1]>> = a
                        /\ <<xs.v[d], ys.v[d]>> = b

\* pixel indices listed by the cached segment between the current pin of
\* run r and pin b, one per sample
C23_SegmentList(r, b) ==
  LET slot == b * params.numberOfPins + currentPin[r]
      xs == lineCache.x[slot].v
      ys == lineCache.y[slot].v
  IN  [i \in 1..Len(xs) |-> ys[i] * params.imgSize + xs[i]]

C23_Clamp(v) == IF v < 0 THEN 0 ELSE IF v > 255 THEN 255 ELSE v

\* the clamped subtraction applied n times
RECURSIVE C23_Repeat(_, _)
C23_Repeat(v, n) ==
  IF n = 0 THEN v ELSE C23_Repeat(C23_Clamp(v - params.lineWeight), n - 1)

\* how often pixel k is listed
C23_Listings(list, k) == Cardinality({i \in 1..Len(list) : list[i] = k})

\* the step of run r that appended pin b subtracted the weight once from
\* every listed pixel
C23_WritesOnce(r, b) ==
  \A k \in DOMAIN errorMatrix[r] :
    errorMatrix'[r][k] =
      IF C23_Listings(C23_SegmentList(r, b), k) > 0
      THEN C23_Clamp(errorMatrix[r][k] - params.lineWeight)
      ELSE errorMatrix[r][k]

\* the step of run r that appended pin b subtracted the weight from every
\* listed pixel once per listing
C23_WritesPerListing(r, b) ==
  \A k \in DOMAIN errorMatrix[r] :
    /\ errorMatrix'[r][k] =
         C23_Repeat(errorMatrix[r][k], C23_Listings(C23_SegmentList(r, b), k))
    /\ params.lineWeight >= 0 => errorMatrix'[r][k] <= errorMatrix[r][k]

\* the last pin of the sequence of run r after the step
C23_Appended(r) == lineSequence'[r][Len(lineSequence'[r])]

\* C23 (as stated): one solver step changes F only at the pixel indices of
\* the chosen segment, where each listed pixel p becomes
\* clamp(F[p] - lineWeight, 0, 255); every other element of F, the line
\* cache and the pin table are left unchanged by the whole run.
C23_FrameOnce ==
  [][/\ lineCache' = lineCache
     /\ pinCoords' = pinCoords
     /\ \A r \in Runs :
          IF lineSequence'[r] # lineSequence[r]
          THEN C23_WritesOnce(r, C23_Appended(r))
          ELSE errorMatrix'[r] = errorMatrix[r]]_vars

\* C23 (amended): one solver step changes F only at the pixel indices of
\* the chosen segment, where the clamped subtraction
\* F[p] <- clamp(F[p] - lineWeight, 0, 255) is applied once for every time
\* p is listed (a segment can list a pixel twice); with lineWeight >= 0 no
\* element of F increases; every other element of F, the line cache and
\* the pin table are left unchanged by the whole run.
C23_Frame ==
  [][/\ lineCache' = lineCache
     /\ pinCoords' = pinCoords
     /\ \A r \in Runs :
          IF lineSequence'[r] # lineSequence[r]
          THEN C23_WritesPerListing(r, C23_Appended(r))
          ELSE errorMatrix'[r] = errorMatrix[r]]_vars

\* a line whose segment lists one pixel twice has been applied: that pixel
\* lost the weight twice, its neighbours on the segment once
C23_Witness ==
  /\ params.imgSize = WideSize
  /\ processedImageData[WideSize + 1] = 0
  /\ Len(lineSequence[1]) = 3
  /\ errorMatrix[1][WideSize + 1] = 255 - 3 * params.lineWeight
  /\ \E k \in DOMAIN errorMatrix[1] : errorMatrix[1][k] = 0

\* run 1 is over: it returned, or its promise was rejected because the
\* progress callback threw
C24_Settled == pc[1] \in {"done", "rejected"}

\* a run that returned applied numberOfLines segments, or found no candidate
C24_ReturnedBecause ==
  pc[1] = "done"
    => \/ /\ ~warned[1]
          /\ lineIndex[1] = params.numberOfLines
          /\ Len(lineSequence[1]) = params.numberOfLines + 1
       \/ /\ warned[1]
          /\ BestPin(1) = -1

\* one timer is awaited after each published record, and at most one record
\* is published per applied line
C24_TimersBounded == Len(ticks[1]) <= Len(lineSequence[1]) - 1

C25_Sum ==
  299 * call.pixel[1] + 587 * call.pixel[2] + 114 * call.pixel[3]

C26_RoomyRing == params.numberOfPins - 2 * params.minDistance > RecentWindow

\* C26: if numberOfPins - 2 * minDistance > 20 (the line cache being built
\* with the solver's minDistance), the solver never stops early: whatever
\* the initial residual field with values in [0, 255], the returned
\* sequence has exactly numberOfLines + 1 elements.
C26_NeverStopsEarly ==
  C26_RoomyRing
    => \A r \in Runs :
         /\ ~warned[r]
         /\ InLoopBody(r) => BestPin(r) # -1
         /\ pc[r] = "done" => Len(lineSequence[r]) = params.numberOfLines + 1

\* a full run on a roomy ring over an image with black and white pixels,
\* long enough for the window to be full
C26_Witness ==
  /\ C26_RoomyRing
  /\ pc[1] = "done"
  /\ Len(lineSequence[1]) = params.numberOfLines + 1
  /\ Len(lastPins[1]) = RecentWindow
  /\ \E j, k \in DOMAIN processedImageData :
       processedImageData[j] = 0 /\ processedImageData[k] = 255

\* the elements of a sequence of pins are pairwise distinct
C27_Distinct(seq) ==
  \A i, j \in 1..Len(seq) : i # j => seq[i] # seq[j]

\* C27: the recent window always holds at most 20 pairwise distinct pins;
\* consequently, when numberOfPins <= 20 the window never evicts (it holds
\* every pin chosen so far), no pin is chosen twice, and the sequence has
\* at most numberOfPins + 1 elements whatever numberOfLines is: the run
\* stops early whenever numberOfLines > numberOfPins.
C27_WindowDistinct ==
  \A r \in Runs :
    /\ Len(lastPins[r]) <= RecentWindow
    /\ C27_Distinct(lastPins[r])
    /\ params.numberOfPins <= RecentWindow
         => /\ lastPins[r] = Tail(lineSequence[r])
            /\ C27_Distinct(Tail(lineSequence[r]))
            /\ Len(lineSequence[r]) <= params.numberOfPins + 1
            /\ (pc[r] = "done" /\ params.numberOfLines > params.numberOfPins)
                 => (warned[r] /\ Len(lineSequence[r]) < params.numberOfLines + 1)

\* a run asked for more lines than pins: it came back to the start pin and
\* stopped early with numberOfPins + 1 elements
C27_Witness ==
  /\ params.numberOfLines > params.numberOfPins
  /\ pc[1] = "done"
  /\ warned[1]
  /\ Len(lineSequence[1]) = params.numberOfPins + 1
  /\ Len(lastPins[1]) = params.numberOfPins

\* C28: in every progress record published by the solver, currentPin equals
\* nextPin, and both equal the last element of the sequence snapshot
\* delivered with that record (the pin just chosen): the current pin is
\* advanced before the record is built.
C28_RecordPins ==
  \A r \in Runs :
    \A i \in 1..Len(ticks[r]) :
      LET record == ticks[r][i].progress
          items == TickItems(r, i)
      IN  /\ record.currentPin = record.nextPin
          /\ Len(items) >= 2
          /\ record.nextPin = items[Len(items)]

\* two records were published, the later one for a pin other than the
\* start pin
C28_Witness ==
  /\ Len(ticks[1]) >= 2
  /\ ticks[1][2].progress.currentPin # 0
  /\ ticks[1][2].progress.currentPin # ticks[1][1].progress.currentPin
  /\ ticks[1][2].progress.linesDrawn > 1

(* --------------------------- the App component ---------------------------- *)
solver == <<inputs, locals, cancelRequested, exported>>

\* the generateArt calls made so far
Started == {g \in Generations : generation[g] # "none"}

\* reader.onload of processFile: the file chosen or dropped has been read
processFile(file) ==
  /\ selectedImage' = file
  /\ result' = 0
  /\ error' = FALSE
  /\ UNCHANGED <<isProcessing, progress, selectedPreset, generation, solver>>

\* a preset card is clicked; the cards are not disabled while processing
applyPreset(presetId) ==
  /\ selectedPreset' = presetId
  /\ UNCHANGED <<selectedImage, isProcessing, result, progress, error,
                 generation, solver>>

\* the Generate button is enabled
GenerateEnabled == selectedImage # 0 /\ ~isProcessing

\* the Generate button is clicked: the flag is set and the image element
\* starts to load
generateArt ==
  /\ GenerateEnabled
  /\ Cardinality(Started) < MaxGenerations
  /\ isProcessing' = TRUE
  /\ error' = FALSE
  /\ progress' = 0
  /\ generation' = [generation EXCEPT ![Cardinality(Started) + 1] = "loading"]
  /\ UNCHANGED <<selectedImage, result, selectedPreset, solver>>

\* img.onload: generateStringArt is called and awaited
ImgOnload(g) ==
  /\ generation[g] = "loading"
  /\ generation' = [generation EXCEPT ![g] = "running"]
  /\ UNCHANGED <<selectedImage, isProcessing, result, progress, error,
                 selectedPreset, solver>>

\* the progress callback handed to generateStringArt
OnProgressUpdate(g) ==
  /\ generation[g] = "running"
  /\ progress' = g
  /\ UNCHANGED <<selectedImage, isProcessing, result, error, selectedPreset,
                 generation, solver>>

\* the awaited call resolves: the result is stored, the flag is cleared
GenerationResolves(g) ==
  /\ generation[g] = "running"
  /\ generation' = [generation EXCEPT ![g] = "resolved"]
  /\ result' = g
  /\ isProcessing' = FALSE
  /\ UNCHANGED <<selectedImage, progress, error, selectedPreset, solver>>

\* the awaited call rejects: the message is stored, the flag is cleared
GenerationFails(g) ==
  /\ generation[g] = "running"
  /\ generation' = [generation EXCEPT ![g] = "failed"]
  /\ error' = TRUE
  /\ isProcessing' = FALSE
  /\ UNCHANGED <<selectedImage, result, progress, selectedPreset, solver>>

\* 'Create New', rendered while a result is shown
handleTryAgain ==
  /\ result # 0
  /\ selectedImage' = 0
  /\ result' = 0
  /\ progress' = 0
  /\ error' = FALSE
  /\ isProcessing' = FALSE
  /\ UNCHANGED <<selectedPreset, generation, solver>>

AppNext ==
  \/ \E file \in Files : processFile(file)
  \/ \E presetId \in PresetIds : applyPreset(presetId)
  \/ generateArt
  \/ \E g \in Generations : ImgOnload(g)
  \/ \E g \in Generations : OnProgressUpdate(g)
  \/ \E g \in Generations : GenerationResolves(g)
  \/ \E g \in Generations : GenerationFails(g)
  \/ handleTryAgain

\* the component on its own: the solver's state is that of one fixed input
AppSpec == CallInit /\ [][AppNext]_vars

\* the generateArt calls whose generateStringArt has neither resolved nor
\* failed
C29_InProgress == {g \in Generations : generation[g] \in {"loading", "running"}}

\* C29: at most one generation run is in progress at any time
C29_SingleRun == Cardinality(C29_InProgress) <= 1

\* the min_distance of the run is within 1 <= min_distance < n_pins / 2
C30_Admissible ==
  1 <= params.minDistance /\ 2 * params.minDistance < params.numberOfPins

\* the pins the scan from pin cur walks, before the recent window is applied
C30_Scanned(cur) ==
  C12_Elements(getValidTargetPins(cur, params.minDistance,
                                  params.numberOfPins, <<>>))

\* the slot the solver reads for candidate c from pin cur holds a segment,
\* the one of the mirrored slot
C30_Present(c, cur) ==
  LET lookup == c * params.numberOfPins + cur
      mirror == cur * params.numberOfPins + c
  IN  /\ ~lineCache.x[lookup].isNull
      /\ ~lineCache.y[lookup].isNull
      /\ lineCache.x[lookup] = lineCache.x[mirror]
      /\ lineCache.y[lookup] = lineCache.y[mirror]
      /\ lineCache.length[lookup] = lineCache.length[mirror]

\* the step about to be taken finds no pin
C30_StepFails ==
  /\ pc[1] = "loop"
  /\ lineIndex[1] < params.numberOfLines
  /\ findBestNextPin(currentPin[1], errorMatrix[1], lineCache, lastPins[1],
                     params).bestPin = -1

\* C30: with the cache built for the solver's min_distance, 1 <= min_distance
\* < n_pins / 2, every candidate of the scan from every pin has a present
\* cache entry at candidate * n_pins + current, equal to the mirrored entry,
\* and a step fails only when every scanned pin is in the recent window
C30_CacheCoversScan ==
  C30_Admissible =>
    /\ \A cur \in 0..(params.numberOfPins - 1) :
         \A c \in C30_Scanned(cur) : C30_Present(c, cur)
    /\ C30_StepFails =>
         C30_Scanned(currentPin[1]) \subseteq C12_Elements(lastPins[1])

\* a step fails on an admissible ring whose scan is not empty
C30_Witness ==
  /\ C30_Admissible
  /\ C30_StepFails
  /\ C30_Scanned(currentPin[1]) # {}
  /\ \A c \in C30_Scanned(currentPin[1]) : C30_Present(c, currentPin[1])

====
